---- MODULE Spec2Model ----
(***************************************************************************)
(* Model of the sharepic generator (template.py): the type scale, the box  *)
(* of rectangles (slot layout), the text block writer, the panel draws on  *)
(* the cairo context and the render pass of SharepicGenerator.             *)
(*                                                                         *)
(* Lengths are exact rationals held as integers: one point of the source   *)
(* is PT model units, chosen so that every constant of the source          *)
(* (DPI / 25.4, 1 / 30 of the width, quarters and halves) is a whole       *)
(* number of units.  IEEE rounding of the Python floats is not modelled.   *)
(***************************************************************************)
EXTENDS Integers, Sequences, FiniteSets

VARIABLES
    pc,     \* what the program is doing: "idle", a step of a render pass, or the object just built
    box,    \* the BoxOfRectangles last constructed on its own: [n, top_y, bottom_y, out]
    scale,  \* the TypeScale last constructed on its own: [base_size, scale_ratio, out]
    text,   \* the _write_text_at call last made on its own: its arguments, the font and the result
    data,       \* the DataFrame given to SharepicGenerator: rows [team, week], in input order
    week,       \* the requested calendar week
    scores,     \* the scores flag
    game_data,  \* self.game_data: the rows of the week, indexed by team
    n_teams,    \* the local n_teams of __init__
    init_top_y, \* the local top_y of __init__: what _draw_headlines returned
    rectangles, \* self.rectangles, the slots of the BoxOfRectangles
    painted,    \* what has been painted on the surface, in order
    it,         \* position of __call__'s for loop in zip(rectangles, teams)
    card,       \* the fields of the card drawn last
    raised,     \* the exception that ended the pass, or "none"
    image,      \* what to_pil returned to the caller
    saved,      \* the image main wrote to the file of the pass
    ctx,        \* self.ctx, the drawing context of the generator
    panel       \* the draw_rect or draw_frosted_rect call last made on its own

callVars == <<box, scale, text, panel>>
passVars == <<data, week, scores, game_data, n_teams, init_top_y, rectangles, painted, it,
              card, raised, image, saved, ctx>>
vars == <<pc, box, scale, text, data, week, scores, game_data, n_teams, init_top_y,
          rectangles, painted, it, card, raised, image, saved, ctx, panel>>

(***************************************************************************)
(* Bounds of the model.                                                    *)
(***************************************************************************)
MaxRects == 5
MaxLines == 3
MaxRows == 3

(***************************************************************************)
(* Module constants of template.py, in model units.                        *)
(***************************************************************************)
PT == 254 * 10                              \* model units per point
DPI == 96
WIDTH_PTS == 1080 * PT
HEIGHT_PTS == 1350 * PT
MM_TO_UNITS == (DPI * PT * 10) \div 254     \* DPI / 25.4 points per millimetre

RECT_H == 30 * MM_TO_UNITS
RECT_W == WIDTH_PTS - (4 * WIDTH_PTS) \div 30
H_PAD == WIDTH_PTS \div 30

Coordinate(x, y) == [x_pos |-> x, y_pos |-> y]

NoBox == [raised |-> "none", rectangles |-> <<>>, lowest_rect_y |-> 0, bottom_y |-> 0,
          msg |-> <<>>]

(***************************************************************************)
(* BoxOfRectangles.__init__                                                *)
(***************************************************************************)
\* UpperHalfHeight with n_pads_upper_half = n / 2, the "- 0.5" forgotten.
UpperHalfHeight_FullPads(n_rectangles) ==
    (n_rectangles * RECT_H) \div 2 + (n_rectangles * H_PAD) \div 2

\* n_rectangles_upper_half * RECT_H + n_pads_upper_half * H_PAD, with
\* n_rectangles_upper_half = n / 2 and n_pads_upper_half = n / 2 - 0.5.
UpperHalfHeight(n_rectangles) ==
    (n_rectangles * RECT_H) \div 2 + ((n_rectangles - 1) * H_PAD) \div 2

\* YPosStart with center_of_box = box_height / 2, top_y forgotten.
YPosStart_NoTop(n_rectangles, top_y, bottom_y) ==
    LET box_height == bottom_y - top_y
        center_of_box == box_height \div 2
    IN  center_of_box - UpperHalfHeight(n_rectangles)

YPosStart(n_rectangles, top_y, bottom_y) ==
    LET box_height == bottom_y - top_y
        center_of_box == top_y + box_height \div 2
    IN  center_of_box - UpperHalfHeight(n_rectangles)

\* The for loop: one Coordinate appended per pass, current_y_pos advanced.
RECURSIVE AppendRectangles(_, _, _)
AppendRectangles(rects, current_y_pos, remaining) ==
    IF remaining = 0
    THEN [rectangles |-> rects, current_y_pos |-> current_y_pos]
    ELSE AppendRectangles(
             Append(rects, Coordinate((WIDTH_PTS - RECT_W) \div 2, current_y_pos)),
             current_y_pos + RECT_H + H_PAD,
             remaining - 1)

\* LowestRectY with the trailing pad left in.
LowestRectY_WithPad(current_y_pos) == current_y_pos

\* lowest_rect_y := current_y_pos - H_PAD
LowestRectY(current_y_pos) == current_y_pos - H_PAD

\* Overflows with >= for >.
Overflows_NonStrict(lowest_rect_y, bottom_y) == lowest_rect_y >= bottom_y

\* The test that raises OverflowingHBoxError.
Overflows(lowest_rect_y, bottom_y) == lowest_rect_y > bottom_y

\* OverflowMsg with current_y_pos for lowest_rect_y: the pad below the last
\* rectangle counted in.
OverflowMsg_WithPad(lowest_rect_y, bottom_y) == <<lowest_rect_y + H_PAD, bottom_y>>

\* The two values formatted into msg, the argument of OverflowingHBoxError:
\* "... ends at a y position of {lowest_rect_y}, which is larger than the
\* largest possible y position of {bottom_y}."
OverflowMsg(lowest_rect_y, bottom_y) == <<lowest_rect_y, bottom_y>>

BoxOfRectangles(n_rectangles, top_y, bottom_y) ==
    IF ~(top_y < bottom_y)
    THEN [NoBox EXCEPT !.raised = "AssertionError"]
    ELSE LET loop == AppendRectangles(<<>>, YPosStart(n_rectangles, top_y, bottom_y),
                                      n_rectangles)
             lowest_rect_y == LowestRectY(loop.current_y_pos)
         IN  IF Overflows(lowest_rect_y, bottom_y)
             THEN [raised |-> "OverflowingHBoxError", rectangles |-> <<>>,
                   lowest_rect_y |-> lowest_rect_y, bottom_y |-> bottom_y,
                   msg |-> OverflowMsg(lowest_rect_y, bottom_y)]
             ELSE [NoBox EXCEPT !.rectangles = loop.rectangles]

(***************************************************************************)
(* Rationals n / d with d > 0, for the font sizes.                         *)
(***************************************************************************)
Rat(n, d) == [n |-> n, d |-> d]

RatMul(a, b) == Rat(a.n * b.n, a.d * b.d)

\* a / b for b > 0
RatDiv(a, b) == Rat(a.n * b.d, a.d * b.n)

RatLess(a, b) == a.n * b.d < b.n * a.d

RatEq(a, b) == a.n * b.d = b.n * a.d

(***************************************************************************)
(* TypeScale.__init__                                                      *)
(***************************************************************************)
NoScale ==
    [raised |-> "none", built |-> FALSE,
     H1 |-> Rat(0, 1), H2 |-> Rat(0, 1), H3 |-> Rat(0, 1), H4 |-> Rat(0, 1),
     H5 |-> Rat(0, 1), BODY |-> Rat(0, 1), CAPTION |-> Rat(0, 1), SMALL |-> Rat(0, 1)]

\* The eight assignments, in the order of the source; a division by a zero
\* scale_ratio raises ZeroDivisionError and no object is built.
TypeScale(base_size, scale_ratio) ==
    LET base == Rat(base_size, 1)
        H5 == RatMul(scale_ratio, base)
        H4 == RatMul(scale_ratio, H5)
        H3 == RatMul(scale_ratio, H4)
        H2 == RatMul(scale_ratio, H3)
        H1 == RatMul(scale_ratio, H2)
    IN  IF scale_ratio.n = 0
        THEN [NoScale EXCEPT !.raised = "ZeroDivisionError"]
        ELSE LET CAPTION == RatDiv(base, scale_ratio)
             IN  [raised |-> "none", built |-> TRUE,
                  H1 |-> H1, H2 |-> H2, H3 |-> H3, H4 |-> H4, H5 |-> H5,
                  BODY |-> base, CAPTION |-> CAPTION,
                  SMALL |-> RatDiv(CAPTION, scale_ratio)]

(***************************************************************************)
(* Python values whose type the code tests with isinstance.                *)
(***************************************************************************)
PyStr(v) == [py |-> "str", val |-> v]
PyList(v) == [py |-> "list", val |-> v]
PyFloat(v) == [py |-> "float", val |-> v]
PyInt(v) == [py |-> "int", val |-> v]

Min(a, b) == IF a < b THEN a ELSE b

\* zip(a, b): pairs up to the shorter of the two sequences.
Zip(a, b) == [i \in 1..Min(Len(a), Len(b)) |-> <<a[i], b[i]>>]

(***************************************************************************)
(* The font of the drawing context: ascent and descent per point of font   *)
(* size, as ctx.font_extents() reports them for the selected face.         *)
(***************************************************************************)
FontExtents(font, font_size) ==
    [ascent |-> 2 * ((font_size.n * font.ascent) \div (2 * font_size.d)),
     descent |-> 2 * ((font_size.n * font.descent) \div (2 * font_size.d))]

(***************************************************************************)
(* SharepicGenerator._write_text_at                                        *)
(***************************************************************************)
line_spacing == 13 * PT

TotalTextHeight(n_lines, single_line_height) ==
    (n_lines * single_line_height) + ((n_lines - 1) * line_spacing)

\* StartY without the halving: the block pushed to the bottom of the slot.
StartY_NotHalved(text_y, total_text_height) ==
    text_y + (RECT_H - total_text_height)

StartY(text_y, total_text_height) ==
    text_y + (RECT_H - total_text_height) \div 2

NoText == [raised |-> "none", start_y |-> 0, total_text_height |-> 0, shown |-> <<>>]

\* The result: the error raised and the move_to/show_text pairs made.
WriteTextAt(font, text_x, text_y, text_content, font_size) ==
    LET content == IF text_content.py = "str" THEN <<text_content.val>>
                   ELSE text_content.val
        xs == IF text_x.py = "float" THEN PyList([i \in 1..Len(content) |-> text_x.val])
              ELSE text_x
        extents == FontExtents(font, font_size)
        single_line_height == extents.ascent + extents.descent
        total_text_height == TotalTextHeight(Len(content), single_line_height)
        start_y == StartY(text_y, total_text_height)
        pairs == Zip(content, xs.val)
    IN  IF xs.py # "list"
        THEN [NoText EXCEPT !.raised = "TypeError"]
        ELSE [raised |-> "none",
              start_y |-> start_y,
              total_text_height |-> total_text_height,
              shown |-> [i \in 1..Len(pairs) |->
                           [x |-> pairs[i][2],
                            y |-> start_y + ((i - 1) * (single_line_height + line_spacing))
                                    + extents.ascent,
                            text |-> pairs[i][1]]]]

(***************************************************************************)
(* cairo.Context: the graphics state (source, line width, clip), the stack *)
(* of states saved with save(), and the current path, which is no part of  *)
(* the graphics state.  A clip is the set of rectangles whose intersection *)
(* is the clip region; no rectangle is the whole surface.                  *)
(***************************************************************************)
WHITE == "WHITE"
ISLANDERS_BLUE == "ISLANDERS_BLUE"

GState(c) == [source |-> c.source, line_width |-> c.line_width, clip |-> c.clip]

\* cairo.Context(surface): opaque black, line width 2.0, nothing clipped.
NewContext == [stack |-> <<>>, source |-> "black", line_width |-> 2, clip |-> {}, path |-> {}]

Call(name, arg) == [call |-> name, arg |-> arg]

\* The context after one call of the cairo API.
Apply(c, call) ==
    CASE call.call = "save" -> [c EXCEPT !.stack = Append(c.stack, GState(c))]
      [] call.call = "restore" ->
            [c EXCEPT !.stack = SubSeq(c.stack, 1, Len(c.stack) - 1),
                      !.source = c.stack[Len(c.stack)].source,
                      !.line_width = c.stack[Len(c.stack)].line_width,
                      !.clip = c.stack[Len(c.stack)].clip]
      [] call.call = "rectangle" -> [c EXCEPT !.path = c.path \cup {call.arg}]
      [] call.call = "clip" -> [c EXCEPT !.clip = c.clip \cup c.path, !.path = {}]
      [] call.call \in {"set_source_surface", "set_source_rgb", "set_source_rgba"} ->
            [c EXCEPT !.source = call.arg]
      [] call.call = "set_line_width" -> [c EXCEPT !.line_width = call.arg]
      [] call.call \in {"fill", "stroke"} -> [c EXCEPT !.path = {}]
      [] call.call = "paint" -> c

\* The calls made one after the other: the context after each of them.
RECURSIVE Run(_, _, _)
Run(c, calls, trace) ==
    IF calls = <<>>
    THEN trace
    ELSE Run(Apply(c, Head(calls)), Tail(calls),
             Append(trace, [call |-> Head(calls), ctx |-> Apply(c, Head(calls))]))

\* The context after the last of the calls.
After(c, calls) == IF calls = <<>> THEN c ELSE Run(c, calls, <<>>)[Len(calls)].ctx

\* The rectangle of a slot: x, y, RECT_W, RECT_H.
RectOf(rect) == [x |-> rect.x_pos, y |-> rect.y_pos, w |-> RECT_W, h |-> RECT_H]

(***************************************************************************)
(* SharepicGenerator.draw_frosted_rect and draw_rect: the calls they make. *)
(***************************************************************************)
draw_frosted_rect(rect) ==
    <<Call("save", 0),
      Call("rectangle", RectOf(rect)),
      Call("save", 0),
      Call("clip", 0),
      Call("set_source_surface", "blurred_surface"),
      Call("paint", 0),
      Call("restore", 0),
      Call("set_source_rgba", "frost"),
      Call("rectangle", RectOf(rect)),
      Call("fill", 0),
      Call("set_source_rgba", "edge"),
      Call("set_line_width", 2),
      Call("rectangle", RectOf(rect)),
      Call("stroke", 0),
      Call("restore", 0)>>

draw_rect(rect) ==
    <<Call("set_source_rgb", WHITE),
      Call("rectangle", RectOf(rect)),
      Call("fill", 0)>>

(***************************************************************************)
(* The calls on self.ctx that set its state in the other drawing steps.    *)
(***************************************************************************)
\* __init__: set_source_surface(self.bg_surface, 0, 0); paint()
BackgroundCalls == <<Call("set_source_surface", "bg_surface"), Call("paint", 0)>>

LogoCalls == <<Call("set_source_surface", "logo_surface"), Call("paint", 0)>>

HeadlinesCalls == <<Call("set_source_rgb", WHITE)>>

FooterCalls == <<Call("set_source_rgb", WHITE)>>

VsCalls == <<Call("set_source_surface", "vs_surf"), Call("paint", 0)>>

\* __call__, up to the first text of a card: draw_rect, _draw_vs and
\* set_source_rgb(*ISLANDERS_BLUE).
CardCalls(rect) == draw_rect(rect) \o VsCalls \o <<Call("set_source_rgb", ISLANDERS_BLUE)>>

(***************************************************************************)
(* consts.py and the strings of the data.                                  *)
(***************************************************************************)
YOUTH_TEAMS == <<"U17", "U15", "U13", "U11", "U9">>

\* The teams without scores: the set literal of __init__ and of __call__.
NoScoreTeams == {"U11", "U9"}

Range(f) == {f[i] : i \in DOMAIN f}

\* str.split(sep) on a string held as a sequence of characters: the fields
\* between the occurrences of sep, empty fields included.
RECURSIVE SplitFrom(_, _, _, _)
SplitFrom(str, sep, fields, field) ==
    IF str = <<>>
    THEN Append(fields, field)
    ELSE IF Head(str) = sep
         THEN SplitFrom(Tail(str), sep, Append(fields, field), <<>>)
         ELSE SplitFrom(Tail(str), sep, fields, Append(field, Head(str)))

Split(str, sep) == SplitFrom(str, sep, <<>>, <<>>)

(***************************************************************************)
(* pandas: the week filter, set_index, Index.unique and .loc[[team]].      *)
(***************************************************************************)
\* game_data.loc[week of the date == week]: the rows of the week, in order.
FilterWeek(frame, w) == SelectSeq(frame, LAMBDA row : row.week = w)

\* The index after set_index(TEAMS_COL): the team of every row.
Index(frame) == [i \in 1..Len(frame) |-> frame[i].team]

\* Index.unique(): the distinct labels in the order of their first row.
RECURSIVE UniqueFrom(_, _)
UniqueFrom(labels, seen) ==
    IF labels = <<>>
    THEN seen
    ELSE IF Head(labels) \in Range(seen)
         THEN UniqueFrom(Tail(labels), seen)
         ELSE UniqueFrom(Tail(labels), Append(seen, Head(labels)))

Unique(labels) == UniqueFrom(labels, <<>>)

\* game_data.loc[[team]]: the rows of the team, in order.
Loc(frame, team) == SelectSeq(frame, LAMBDA row : row.team = team)

(***************************************************************************)
(* SharepicGenerator.__init__                                              *)
(***************************************************************************)
\* NTeams without the exclusion of U11 and U9.
NTeams_NoExclusion(frame, with_scores) == Cardinality(Range(Index(frame)))

\* len(set(index) - ({"U11", "U9"} if scores else set()))
NTeams(frame, with_scores) ==
    Cardinality(Range(Index(frame)) \ (IF with_scores THEN NoScoreTeams ELSE {}))

type_scale == TypeScale(32, Rat(6, 5))

\* The face selected with select_font_face, per point of font size.
Industry == [ascent |-> 2286, descent |-> 762, advance |-> 1270]

\* ctx.text_extents(text).x_advance
XAdvance(font, font_size, str) ==
    Len(str) * ((font_size.n * font.advance) \div font_size.d)

\* bottom_y = 315 * MM_TO_UNITS
BottomY == 315 * MM_TO_UNITS

\* _draw_headlines: text_y = HEIGHT_PTS / 4, then text_y += 2 * height of
\* the second line; the value returned is text_y + 0.5 * that height.
DrawHeadlinesTopY(height) == HEIGHT_PTS \div 4 + 2 * height + height \div 2

Op(name, rect, team) == [op |-> name, rect |-> rect, team |-> team]

NoCard == [team |-> "", rect |-> 0, opponents |-> <<>>, vals |-> <<>>,
           lefts |-> <<>>, rights |-> <<>>, shown |-> <<>>,
           ctx_before |-> NewContext, ctx_after |-> NewContext]

(***************************************************************************)
(* SharepicGenerator.__call__: one pass of the for loop.                   *)
(***************************************************************************)
\* The pairs of zip(self.rectangles, self.game_data.index.unique()).
Pairs == Zip(rectangles, Unique(Index(game_data)))

\* if self.scores and team in {"U11", "U9"}: continue
Skipped(with_scores, team) == with_scores /\ team \in NoScoreTeams

\* left, right = val.split(":"); two fields or ValueError.
SplitPair(val) == Split(val, ":")

\* SplitVals with the ValueError caught: a val that does not unpack into
\* two fields is left out and the loop goes on.
RECURSIVE SplitVals_SkipsBadVal(_, _, _, _)
SplitVals_SkipsBadVal(vals, lefts, rights, left_x_pos) ==
    IF vals = <<>>
    THEN [raised |-> "none", lefts |-> lefts, rights |-> rights, left_x_pos |-> left_x_pos]
    ELSE LET fields == SplitPair(Head(vals))
             x_pos == (86 * WIDTH_PTS) \div 100
         IN  IF Len(fields) # 2
             THEN SplitVals_SkipsBadVal(Tail(vals), lefts, rights, left_x_pos)
             ELSE SplitVals_SkipsBadVal(
                      Tail(vals),
                      Append(lefts, fields[1]),
                      Append(rights, fields[2]),
                      Append(left_x_pos,
                             x_pos - XAdvance(Industry, type_scale.BODY, fields[1])))

\* The loop over vals: lefts, rights and left_x_pos, or the ValueError of
\* the first val that does not unpack into two fields.
RECURSIVE SplitVals(_, _, _, _)
SplitVals(vals, lefts, rights, left_x_pos) ==
    IF vals = <<>>
    THEN [raised |-> "none", lefts |-> lefts, rights |-> rights, left_x_pos |-> left_x_pos]
    ELSE LET fields == SplitPair(Head(vals))
             x_pos == (86 * WIDTH_PTS) \div 100
         IN  IF Len(fields) # 2
             THEN [raised |-> "ValueError", lefts |-> lefts, rights |-> rights,
                   left_x_pos |-> left_x_pos]
             ELSE SplitVals(Tail(vals),
                            Append(lefts, fields[1]),
                            Append(rights, fields[2]),
                            Append(left_x_pos,
                                   x_pos - XAdvance(Industry, type_scale.BODY, fields[1])))

(***************************************************************************)
(* Inputs of a BoxOfRectangles built on its own.                           *)
(***************************************************************************)
StackedHeight(n) == n * RECT_H + (n - 1) * H_PAD

TopYs == {0, 2, 100 * PT}
Slacks == {-2, 0, 2, 40 * PT}
Spans == {StackedHeight(m) + d : m \in 0..MaxRects, d \in Slacks}

NoCall == [n |-> 0, top_y |-> 0, bottom_y |-> 0, out |-> NoBox]

(***************************************************************************)
(* Inputs of a TypeScale built on its own.                                 *)
(***************************************************************************)
BaseSizes == {-2, -1, 0, 1, 2, 32}
ScaleRatios == {Rat(0, 1), Rat(1, 2), Rat(1, 1), Rat(6, 5), Rat(3, 2), Rat(2, 1)}

NoScaleCall == [base_size |-> 0, scale_ratio |-> Rat(1, 1), out |-> NoScale]

(***************************************************************************)
(* Inputs of a _write_text_at call made on its own.                        *)
(***************************************************************************)
Fonts == {Industry, [ascent |-> 1905, descent |-> 381, advance |-> 1016]}
FontSizes == {TypeScale(32, Rat(6, 5)).BODY, TypeScale(32, Rat(6, 5)).H3}

\* A line of i characters.
Line(i) == [j \in 1..i |-> "x"]
Lines(k) == [i \in 1..k |-> Line(i)]
XPositions(k) == [i \in 1..k |-> i * 10 * PT]

TextContents == {PyStr(Line(1))} \cup {PyList(Lines(k)) : k \in 0..MaxLines}
TextXs == {PyFloat(216 * PT), PyInt(216 * PT)} \cup {PyList(XPositions(k)) : k \in 0..MaxLines}
TextYs == {0, 100 * PT}

NoTextCall ==
    [font |-> [ascent |-> 0, descent |-> 0, advance |-> 0], text_x |-> PyFloat(0), text_y |-> 0,
     text_content |-> PyList(<<>>), font_size |-> Rat(0, 1), out |-> NoText]

(***************************************************************************)
(* Inputs of a render pass.                                                *)
(***************************************************************************)
Teams == {"U17", "U15", "U11", "U9"}
Weeks == {1, 2}
RequestedWeeks == {1}
Rows == [team : Teams, week : Weeks]
DataFrames == UNION {[1..k -> Rows] : k \in 0..MaxRows}

\* The height text_extents reports for the second headline.
HeadlineHeights == {40 * PT, 300 * PT}

\* The cells of a row read when its card is drawn: the home/away tag of the
\* opponent column and the value of the score or time column.
Wheres == {"H", "A"}
Vals == {<<"3", ":", "5">>, <<"3", ":", "5", ":", "1">>}
Cells == [where : Wheres, val : Vals]

(***************************************************************************)
(* Inputs of a draw_rect or draw_frosted_rect call made on its own: the    *)
(* context as the caller left it, and the slot.                            *)
(***************************************************************************)
PanelRects == {Coordinate((WIDTH_PTS - RECT_W) \div 2, y) : y \in {100 * PT, 500 * PT}}

Sources == {"black", WHITE, ISLANDERS_BLUE, "vs_surf"}
LineWidths == {2, 5}
Clips == {{}, {[x |-> 0, y |-> 0, w |-> WIDTH_PTS, h |-> HEIGHT_PTS \div 2]}}

GStates == [source : Sources, line_width : LineWidths, clip : Clips]

Contexts ==
    {[stack |-> stack, source |-> g.source, line_width |-> g.line_width, clip |-> g.clip,
      path |-> {}] :
        stack \in {<<>>, <<GState(NewContext)>>}, g \in GStates}

NoPanel == [name |-> "", rect |-> Coordinate(0, 0), before |-> NewContext, trace |-> <<>>]

Init ==
    /\ pc = "idle"
    /\ box = NoCall
    /\ scale = NoScaleCall
    /\ text = NoTextCall
    /\ data = <<>>
    /\ week = 1
    /\ scores = FALSE
    /\ game_data = <<>>
    /\ n_teams = 0
    /\ init_top_y = 0
    /\ rectangles = <<>>
    /\ painted = <<>>
    /\ it = 1
    /\ card = NoCard
    /\ raised = "none"
    /\ image = <<>>
    /\ saved = <<>>
    /\ ctx = NewContext
    /\ panel = NoPanel

(***************************************************************************)
(* The operations called on their own.                                     *)
(***************************************************************************)
ConstructBox ==
    /\ pc = "idle"
    /\ \E n \in 0..MaxRects, top_y \in TopYs, span \in Spans :
         box' = [n |-> n, top_y |-> top_y, bottom_y |-> top_y + span,
                 out |-> BoxOfRectangles(n, top_y, top_y + span)]
    /\ pc' = "box"
    /\ UNCHANGED <<scale, text, panel>>
    /\ UNCHANGED passVars

ConstructTypeScale ==
    /\ pc = "idle"
    /\ \E base_size \in BaseSizes, scale_ratio \in ScaleRatios :
         scale' = [base_size |-> base_size, scale_ratio |-> scale_ratio,
                   out |-> TypeScale(base_size, scale_ratio)]
    /\ pc' = "scale"
    /\ UNCHANGED <<box, text, panel>>
    /\ UNCHANGED passVars

CallWriteTextAt ==
    /\ pc = "idle"
    /\ \E font \in Fonts, text_x \in TextXs, text_y \in TextYs,
          text_content \in TextContents, font_size \in FontSizes :
         text' = [font |-> font, text_x |-> text_x, text_y |-> text_y,
                  text_content |-> text_content, font_size |-> font_size,
                  out |-> WriteTextAt(font, text_x, text_y, text_content, font_size)]
    /\ pc' = "text"
    /\ UNCHANGED <<box, scale, panel>>
    /\ UNCHANGED passVars

CallDrawRect ==
    /\ pc = "idle"
    /\ \E c \in Contexts, rect \in PanelRects :
         panel' = [name |-> "draw_rect", rect |-> rect, before |-> c,
                   trace |-> Run(c, draw_rect(rect), <<>>)]
    /\ pc' = "panel"
    /\ UNCHANGED <<box, scale, text>>
    /\ UNCHANGED passVars

CallDrawFrostedRect ==
    /\ pc = "idle"
    /\ \E c \in Contexts, rect \in PanelRects :
         panel' = [name |-> "draw_frosted_rect", rect |-> rect, before |-> c,
                   trace |-> Run(c, draw_frosted_rect(rect), <<>>)]
    /\ pc' = "panel"
    /\ UNCHANGED <<box, scale, text>>
    /\ UNCHANGED passVars

(***************************************************************************)
(* The render pass: SharepicGenerator(data, title, week, scores)(), step   *)
(* by step.  A generator that is "constructed" is called next: __call__    *)
(* makes one pass of its for loop per step and ends with to_pil.           *)
(***************************************************************************)
\* __init__, up to the surface and the loaded vs symbol.
NewGenerator ==
    /\ pc = "idle"
    /\ \E frame \in DataFrames, w \in RequestedWeeks, with_scores \in BOOLEAN :
         /\ data' = frame
         /\ week' = w
         /\ scores' = with_scores
         /\ game_data' = FilterWeek(frame, w)
         /\ n_teams' = NTeams(FilterWeek(frame, w), with_scores)
    /\ ctx' = NewContext
    /\ pc' = "background"
    /\ UNCHANGED <<init_top_y, rectangles, painted, it, card, raised, image, saved>>
    /\ UNCHANGED callVars

\* _prepare_background, then the sharp background painted.
PaintBackground ==
    /\ pc = "background"
    /\ painted' = Append(painted, Op("background", 0, ""))
    /\ ctx' = After(ctx, BackgroundCalls)
    /\ pc' = "logo"
    /\ UNCHANGED <<data, week, scores, game_data, n_teams, init_top_y, rectangles, it,
                   card, raised, image, saved>>
    /\ UNCHANGED callVars

DrawLogo ==
    /\ pc = "logo"
    /\ painted' = Append(painted, Op("logo", 0, ""))
    /\ ctx' = After(ctx, LogoCalls)
    /\ pc' = "headlines"
    /\ UNCHANGED <<data, week, scores, game_data, n_teams, init_top_y, rectangles, it,
                   card, raised, image, saved>>
    /\ UNCHANGED callVars

DrawHeadlines ==
    /\ pc = "headlines"
    /\ \E height \in HeadlineHeights : init_top_y' = DrawHeadlinesTopY(height)
    /\ painted' = Append(painted, Op("headlines", 0, ""))
    /\ ctx' = After(ctx, HeadlinesCalls)
    /\ pc' = "layout"
    /\ UNCHANGED <<data, week, scores, game_data, n_teams, rectangles, it, card, raised,
                   image, saved>>
    /\ UNCHANGED callVars

\* LayoutSlots with self._draw_footer() called before the BoxOfRectangles
\* is built: the footer is painted whether or not the layout overflows.
LayoutSlots_FooterFirst ==
    /\ pc = "layout"
    /\ painted' = Append(painted, Op("footer", 0, ""))
    /\ ctx' = After(ctx, FooterCalls)
    /\ LET out == BoxOfRectangles(n_teams, init_top_y, BottomY)
       IN  IF out.raised # "none"
           THEN /\ raised' = out.raised
                /\ pc' = "failed"
                /\ UNCHANGED rectangles
           ELSE /\ rectangles' = out.rectangles
                /\ pc' = "constructed"
                /\ UNCHANGED raised
    /\ UNCHANGED <<data, week, scores, game_data, n_teams, init_top_y, it, card,
                   image, saved>>
    /\ UNCHANGED callVars

\* self.rectangles = BoxOfRectangles(n_teams, top_y, bottom_y)
LayoutSlots ==
    /\ pc = "layout"
    /\ LET out == BoxOfRectangles(n_teams, init_top_y, BottomY)
       IN  IF out.raised # "none"
           THEN /\ raised' = out.raised
                /\ pc' = "failed"
                /\ UNCHANGED rectangles
           ELSE /\ rectangles' = out.rectangles
                /\ pc' = "footer"
                /\ UNCHANGED raised
    /\ UNCHANGED <<data, week, scores, game_data, n_teams, init_top_y, painted, it, card,
                   image, saved, ctx>>
    /\ UNCHANGED callVars

DrawFooter ==
    /\ pc = "footer"
    /\ painted' = Append(painted, Op("footer", 0, ""))
    /\ ctx' = After(ctx, FooterCalls)
    /\ pc' = "constructed"
    /\ UNCHANGED <<data, week, scores, game_data, n_teams, init_top_y, rectangles, it,
                   card, raised, image, saved>>
    /\ UNCHANGED callVars

\* A pass of the loop that hits "continue".
SkipTeam ==
    /\ pc \in {"constructed", "loop"}
    /\ it <= Len(Pairs)
    /\ Skipped(scores, Pairs[it][2])
    /\ it' = it + 1
    /\ pc' = "loop"
    /\ UNCHANGED <<data, week, scores, game_data, n_teams, init_top_y, rectangles,
                   painted, card, raised, image, saved, ctx>>
    /\ UNCHANGED callVars

\* The text blocks written before the values are split: the team, the
\* dates and the opponents.
HeadTexts(rect, team, dates, opponents) ==
    WriteTextAt(Industry, PyFloat((9 * WIDTH_PTS) \div 100), rect.y_pos,
                PyStr(team), type_scale.H3).shown
    \o WriteTextAt(Industry, PyFloat((2 * WIDTH_PTS) \div 10), rect.y_pos,
                   PyList(dates), type_scale.BODY).shown
    \o WriteTextAt(Industry, PyFloat((475 * WIDTH_PTS) \div 1000), rect.y_pos,
                   PyList(opponents), type_scale.BODY).shown

\* The three text blocks of the values: lefts, colons and rights.
ValueTexts(rect, split) ==
    LET x_pos == (86 * WIDTH_PTS) \div 100
        right_x_pos == x_pos + XAdvance(Industry, type_scale.BODY, <<":">>)
    IN  WriteTextAt(Industry, PyList(split.left_x_pos), rect.y_pos,
                    PyList(split.lefts), type_scale.BODY).shown
        \o WriteTextAt(Industry, PyFloat(x_pos), rect.y_pos,
                       PyList([i \in 1..Len(split.lefts) |-> <<":">>]),
                       type_scale.BODY).shown
        \o WriteTextAt(Industry, PyFloat(right_x_pos), rect.y_pos,
                       PyList(split.rights), type_scale.BODY).shown

\* A pass of the loop that draws the card of a team into its rectangle.
DrawCard ==
    /\ pc \in {"constructed", "loop"}
    /\ it <= Len(Pairs)
    /\ ~Skipped(scores, Pairs[it][2])
    /\ \E rect \in {Pairs[it][1]}, team \in {Pairs[it][2]} :
       \E rows \in {Loc(game_data, team)} :
       \E cells \in [1..Len(rows) -> Cells] :
       \E opponents \in {[i \in 1..Len(rows) |-> cells[i].where]},
          vals \in {[i \in 1..Len(rows) |-> cells[i].val]} :
       \E split \in {SplitVals(vals, <<>>, <<>>, <<>>)},
          head_texts \in {HeadTexts(rect, team, [i \in 1..Len(rows) |-> rows[i].week],
                                    opponents)},
          before \in {<<Op("rect", it, team), Op("vs", it, team), Op("team", it, team),
                        Op("dates", it, team), Op("opponents", it, team)>>} :
         IF split.raised # "none"
         THEN /\ painted' = painted \o before
              /\ card' = [team |-> team, rect |-> it, opponents |-> opponents,
                          vals |-> vals, lefts |-> split.lefts, rights |-> split.rights,
                          shown |-> head_texts,
                          ctx_before |-> ctx, ctx_after |-> After(ctx, draw_rect(rect))]
              /\ raised' = split.raised
              /\ pc' = "failed"
              /\ UNCHANGED it
         ELSE /\ painted' = painted \o before
                              \o <<Op("lefts", it, team), Op("colons", it, team),
                                   Op("rights", it, team)>>
              /\ card' = [team |-> team, rect |-> it, opponents |-> opponents,
                          vals |-> vals, lefts |-> split.lefts, rights |-> split.rights,
                          shown |-> head_texts \o ValueTexts(rect, split),
                          ctx_before |-> ctx, ctx_after |-> After(ctx, draw_rect(rect))]
              /\ it' = it + 1
              /\ pc' = "loop"
              /\ UNCHANGED raised
    /\ ctx' = After(ctx, CardCalls(Pairs[it][1]))
    /\ UNCHANGED <<data, week, scores, game_data, n_teams, init_top_y, rectangles, image, saved>>
    /\ UNCHANGED callVars

\* The loop is exhausted: return self.to_pil(); the locals of __call__ end.
ToPil ==
    /\ pc \in {"constructed", "loop"}
    /\ it > Len(Pairs)
    /\ image' = painted
    /\ card' = NoCard
    /\ pc' = "done"
    /\ UNCHANGED <<data, week, scores, game_data, n_teams, init_top_y, rectangles,
                   painted, it, raised, saved, ctx>>
    /\ UNCHANGED callVars

\* main: preview = generator(); preview.save(...)
Save ==
    /\ pc = "done"
    /\ saved' = image
    /\ pc' = "saved"
    /\ UNCHANGED <<data, week, scores, game_data, n_teams, init_top_y, rectangles,
                   painted, it, card, raised, image, ctx>>
    /\ UNCHANGED callVars

Next ==
    \/ ConstructBox
    \/ ConstructTypeScale
    \/ CallWriteTextAt
    \/ NewGenerator
    \/ PaintBackground
    \/ DrawLogo
    \/ DrawHeadlines
    \/ LayoutSlots
    \/ DrawFooter
    \/ SkipTeam
    \/ DrawCard
    \/ ToPil
    \/ Save
    \/ CallDrawRect
    \/ CallDrawFrostedRect

Spec == Init /\ [][Next]_vars

(***************************************************************************)
(* Properties of BoxOfRectangles.                                          *)
(***************************************************************************)
BoxBuilt == pc = "box" /\ box.top_y < box.bottom_y /\ box.out.raised = "none"

Slot(i) == box.out.rectangles[i]

Pitch == RECT_H + H_PAD

\* C1: a box of n >= 1 rectangles built without error holds exactly n slots,
\* their y positions strictly increase, consecutive slots are RECT_H + H_PAD
\* apart, and the stack is symmetric about (top_y + bottom_y) / 2: the
\* midpoint is as far below the top of the first slot as it is above the
\* bottom of the last one; for an odd n the middle slot is centred on it.
C1_SlotsEvenlySpacedAndSymmetric ==
    (BoxBuilt /\ box.n >= 1) =>
        /\ Len(box.out.rectangles) = box.n
        /\ \A i \in 1..(box.n - 1) :
             /\ Slot(i).y_pos < Slot(i + 1).y_pos
             /\ Slot(i + 1).y_pos - Slot(i).y_pos = Pitch
        /\ (box.top_y + box.bottom_y) - 2 * Slot(1).y_pos
             = 2 * (Slot(box.n).y_pos + RECT_H) - (box.top_y + box.bottom_y)
        /\ (box.n % 2 = 1) =>
             2 * Slot((box.n + 1) \div 2).y_pos + RECT_H = box.top_y + box.bottom_y

C1_Witness ==
    /\ BoxBuilt
    /\ box.n = 5
    /\ box.top_y > 0
    /\ box.bottom_y - box.top_y > StackedHeight(5)

C3_SlotsInsideRegionNoOverlap ==
    BoxBuilt =>
        /\ \A i \in 1..Len(box.out.rectangles) :
             /\ box.top_y <= Slot(i).y_pos
             /\ Slot(i).y_pos + RECT_H <= box.bottom_y
             /\ 2 * Slot(i).x_pos = WIDTH_PTS - RECT_W
        /\ \A i \in 1..(Len(box.out.rectangles) - 1) :
             Slot(i).y_pos + RECT_H <= Slot(i + 1).y_pos

C3_Witness ==
    /\ BoxBuilt
    /\ box.n = 4
    /\ box.top_y = 100 * PT
    /\ Slot(1).y_pos = box.top_y
    /\ Slot(4).y_pos + RECT_H = box.bottom_y

(***************************************************************************)
(* Properties of TypeScale.                                                *)
(***************************************************************************)
LadderOrdered(t) ==
    /\ RatLess(t.H2, t.H1)
    /\ RatLess(t.H3, t.H2)
    /\ RatLess(t.H4, t.H3)
    /\ RatLess(t.H5, t.H4)
    /\ RatLess(t.BODY, t.H5)
    /\ RatLess(t.CAPTION, t.BODY)
    /\ RatLess(t.SMALL, t.CAPTION)

\* For base_size > 0 and scale_ratio > 1 the construction succeeds with
\* H1 > H2 > H3 > H4 > H5 > BODY = base_size > CAPTION > SMALL.
ValidInputsGiveOrderedLadder ==
    (pc = "scale" /\ scale.base_size > 0 /\ RatLess(Rat(1, 1), scale.scale_ratio)) =>
        /\ scale.out.raised = "none"
        /\ scale.out.built
        /\ scale.out.BODY = Rat(scale.base_size, 1)
        /\ LadderOrdered(scale.out)

\* C10: TypeScale rejects invalid inputs: for every base_size <= 0 the
\* construction fails with an error and no size ladder is produced; for
\* base_size > 0 and scale_ratio > 1 it succeeds with the ordered ladder
\* H1 > H2 > H3 > H4 > H5 > BODY = base_size > CAPTION > SMALL.
C10_TypeScaleRejectsInvalidInputs ==
    /\ (pc = "scale" /\ scale.base_size <= 0) =>
         /\ scale.out.raised # "none"
         /\ ~scale.out.built
    /\ ValidInputsGiveOrderedLadder

(***************************************************************************)
(* Properties of _write_text_at.                                           *)
(***************************************************************************)
TextLines == IF text.text_content.py = "str" THEN <<text.text_content.val>>
             ELSE text.text_content.val

LineHeight == FontExtents(text.font, text.font_size).ascent
                + FontExtents(text.font, text.font_size).descent

BlockHeight(k) == k * LineHeight + (k - 1) * line_spacing

TextWritten == pc = "text" /\ text.out.raised = "none"

\* The same call with a single line.
OneLineCall ==
    WriteTextAt(text.font, text.text_x, text.text_y, PyStr(Line(1)), text.font_size)

\* C8: for k >= 1 lines the block of height k * lineHeight + (k - 1) * spacing
\* starts at text_y + (RECT_H - totalHeight) / 2, so the gap above it equals
\* the gap below it inside the slot; line i has its baseline at
\* startY + i * (lineHeight + spacing) + ascent; and the start of a block of
\* 3 lines lies above the start of a block of 1 line of the same font size
\* by exactly (totalHeight_3 - totalHeight_1) / 2.
C8_TextBlockCentredInSlot ==
    (TextWritten /\ Len(TextLines) >= 1) =>
        LET k == Len(TextLines)
            start_y == text.out.start_y
        IN  /\ 2 * (start_y - text.text_y) = RECT_H - BlockHeight(k)
            /\ start_y - text.text_y
                 = (text.text_y + RECT_H) - (start_y + BlockHeight(k))
            /\ \A i \in 1..Len(text.out.shown) :
                 text.out.shown[i].y
                   = start_y + (i - 1) * (LineHeight + line_spacing)
                       + FontExtents(text.font, text.font_size).ascent
            /\ (k = 3 /\ text.text_x.py = "float") =>
                 2 * (OneLineCall.start_y - start_y) = BlockHeight(3) - BlockHeight(1)

C8_Witness ==
    /\ TextWritten
    /\ Len(TextLines) = 3
    /\ Len(text.out.shown) = 3
    /\ text.text_x.py = "float"
    /\ text.text_y > 0

\* C9: a scalar x position is applied to every line, and a per-line x
\* sequence whose length differs from the number of lines makes the call
\* fail with an error: it never draws only the first
\* min(len(lines), len(xPositions)) lines and returns normally.
C9_XPositionsLengthMismatchRejected ==
    /\ (pc = "text" /\ text.text_x.py = "float") =>
         /\ text.out.raised = "none"
         /\ Len(text.out.shown) = Len(TextLines)
         /\ \A i \in 1..Len(text.out.shown) : text.out.shown[i].x = text.text_x.val
    /\ (pc = "text" /\ text.text_x.py = "list"
          /\ Len(text.text_x.val) # Len(TextLines)) =>
         text.out.raised # "none"

(***************************************************************************)
(* Properties of the render pass.                                          *)
(***************************************************************************)
\* The generator was constructed: __init__ returned.
Constructed ==
    \/ pc \in {"constructed", "loop", "done"}
    \/ pc = "failed" /\ raised = "ValueError"

\* The teams with at least one row in the requested week, from the input.
TeamsOfWeek == {data[i].team : i \in {j \in 1..Len(data) : data[j].week = week}}

\* The teams of the week that the mode counts.
EligibleTeams == TeamsOfWeek \ (IF scores THEN {"U11", "U9"} ELSE {})

CardOps(ops) == {i \in 1..Len(ops) : ops[i].rect # 0}

\* C4: BoxOfRectangles(0, top_y, bottom_y) with top_y < bottom_y yields an
\* empty slot sequence and raises nothing, and a render pass whose week has
\* no eligible team is constructed without error, draws no card and can
\* only go on to to_pil, which exports an image without cards.
C4_NoSlotsNoError ==
    /\ (pc = "box" /\ box.n = 0 /\ box.top_y < box.bottom_y) =>
         /\ box.out.raised = "none"
         /\ box.out.rectangles = <<>>
    /\ (pc \in {"footer", "constructed", "loop", "done", "failed"} /\ EligibleTeams = {}) =>
         /\ pc # "failed"
         /\ raised = "none"
         /\ rectangles = <<>>
         /\ CardOps(painted) = {}
         /\ (pc \in {"constructed", "loop"}) => (ENABLED ToPil /\ ~ENABLED DrawCard)
         /\ (pc = "done") => (image = painted /\ image # <<>>)

C4_Witness ==
    /\ pc = "done"
    /\ scores
    /\ TeamsOfWeek = {"U11", "U9"}
    /\ EligibleTeams = {}
    /\ image # <<>>
    /\ CardOps(image) = {}

\* C5: once the generator is constructed the number of slots is the number
\* of distinct teams with at least one row in the requested week, without
\* U11 and U9 when scores is on; a team with several rows counts once.
C5_SlotCountIsEligibleTeamCount ==
    Constructed => Len(rectangles) = Cardinality(EligibleTeams)

\* Three teams with one row each, two of them U11 and U9, in scores mode:
\* exactly one slot.
C5_Witness ==
    /\ pc = "constructed"
    /\ scores
    /\ Len(data) = 3
    /\ \A i \in 1..3 : data[i].week = week
    /\ TeamsOfWeek = {"U17", "U11", "U9"}
    /\ Len(rectangles) = 1

\* The teams counted for the slot layout, in the order of their first row.
CountedTeams ==
    SelectSeq(Unique(Index(FilterWeek(data, week))),
              LAMBDA team : ~(scores /\ team \in {"U11", "U9"}))

\* The positions in the image of the panel ("rect") of a team.
PanelsOfTeam(team) == {i \in 1..Len(image) : image[i].op = "rect" /\ image[i].team = team}

\* C6: in a completed pass slots and counted teams are paired 1:1 in
\* iteration order: the j-th counted team has its card drawn exactly once,
\* in slot j; every slot has a card; and in scores mode U11 and U9 have no
\* card and take no slot away from a counted team.
C6_SlotsAndTeamsPairedOneToOne ==
    (pc = "done") =>
        /\ \A j \in 1..Len(CountedTeams) :
             /\ Cardinality(PanelsOfTeam(CountedTeams[j])) = 1
             /\ \A i \in PanelsOfTeam(CountedTeams[j]) : image[i].rect = j
        /\ \A r \in 1..Len(rectangles) :
             \E i \in 1..Len(image) : image[i].op = "rect" /\ image[i].rect = r
        /\ scores => \A i \in 1..Len(image) : image[i].team \notin {"U11", "U9"}

\* A card has just been drawn completely.
CardDrawn == pc = "loop" /\ card.team # "" /\ Len(card.lefts) = Len(card.vals)

\* C7: in scores mode the pair shown for a row is the raw value "A:B" with
\* the fields swapped for an away row (left = B, right = A) and unchanged
\* for a home row (left = A, right = B).
C7_AwayScoresSwapped ==
    (CardDrawn /\ scores) =>
        \A j \in 1..Len(card.vals) :
            LET fields == Split(card.vals[j], ":")
            IN  /\ (card.opponents[j] = "A") =>
                     (card.lefts[j] = fields[2] /\ card.rights[j] = fields[1])
                /\ (card.opponents[j] = "H") =>
                     (card.lefts[j] = fields[1] /\ card.rights[j] = fields[2])

(***************************************************************************)
(* The render pass as a whole.                                             *)
(***************************************************************************)
\* The names of what is painted for one card, in order.
CardOpNames == <<"rect", "vs", "team", "dates", "opponents", "lefts", "colons", "rights">>

\* The ops in ops that belong to the card in slot r.
OpsOfCard(ops, r) == SelectSeq(ops, LAMBDA o : o.rect = r)

\* The card of pair r is complete in ops: its eight ops, once each, in order.
CardComplete(ops, r) ==
    OpsOfCard(ops, r) = [k \in 1..Len(CardOpNames) |-> Op(CardOpNames[k], r, Pairs[r][2])]

\* Every val of the card drawn last splits into exactly two fields.
CardValsWellFormed == \A j \in 1..Len(card.vals) : Len(Split(card.vals[j], ":")) = 2

\* An image of the pass is in the caller's hands or in the file.
Exported == image # <<>> \/ saved # <<>>

\* C11: a render pass completes or fails as a whole.  An image is handed to
\* the caller, and saved, only when the loop is exhausted, no error was
\* raised and every pair of the loop that is not skipped has its card drawn
\* completely; the pass goes on past the slot layout only if the layout did
\* not overflow, and past a card only if every value of the card split into
\* two fields; otherwise the error ends the pass: it is recorded as raised,
\* nothing is exported, and no step of the pass follows (nothing is retried).
C11_PassCompletesOrFailsAsAWhole ==
    /\ Exported =>
         /\ pc \in {"done", "saved"}
         /\ raised = "none"
         /\ it > Len(Pairs)
         /\ image = painted
         /\ saved \in {<<>>, image}
         /\ \A r \in 1..Len(Pairs) :
              IF Skipped(scores, Pairs[r][2]) THEN OpsOfCard(image, r) = <<>>
              ELSE CardComplete(image, r)
    /\ (pc \in {"done", "saved"}) => Exported
    /\ (pc \in {"footer", "constructed", "loop", "done", "saved"}) =>
         /\ raised = "none"
         /\ ~(StackedHeight(n_teams) > BottomY - init_top_y)
    /\ (pc = "loop" /\ card.team # "") =>
         /\ CardValsWellFormed
         /\ CardComplete(painted, card.rect)
    /\ (raised # "none") <=> (pc = "failed")
    /\ (pc = "failed") =>
         /\ ~Exported
         /\ ~ENABLED Next
         /\ \/ raised = "OverflowingHBoxError"
                 /\ StackedHeight(n_teams) > BottomY - init_top_y
            \/ raised = "ValueError" /\ ~CardValsWellFormed

\* The second card of a pass fails on a value with three fields after the
\* first card was painted completely: the pass has failed and nothing is
\* exported.
C11_Witness ==
    /\ pc = "failed"
    /\ raised = "ValueError"
    /\ card.rect = 2
    /\ CardComplete(painted, 1)
    /\ ~CardValsWellFormed
    /\ ~Exported

(***************************************************************************)
(* The error raised by BoxOfRectangles.                                    *)
(***************************************************************************)
BoxOverflowed == pc = "box" /\ box.out.raised = "OverflowingHBoxError"

\* The y position of the last slot, had the box been built: the stack of
\* n slots centred on the middle of the region.
LastSlotY == (box.top_y + box.bottom_y + StackedHeight(box.n)) \div 2 - RECT_H

\* last slot y + RECT_H - bottomY
Overshoot == LastSlotY + RECT_H - box.bottom_y

InitOps == <<Op("background", 0, ""), Op("logo", 0, ""), Op("headlines", 0, ""),
             Op("footer", 0, "")>>

\* painted starts with the first k ops of __init__.
StartsWithInitOps(k) == Len(painted) >= k /\ SubSeq(painted, 1, k) = SubSeq(InitOps, 1, k)

FooterPainted == \E i \in 1..Len(painted) : painted[i].op = "footer"

\* The slot layout has returned normally.
LayoutSucceeded ==
    \/ pc \in {"footer", "constructed", "loop", "done", "saved"}
    \/ pc = "failed" /\ raised = "ValueError"

\* C13: within one render pass what is painted is, in this order, the
\* background, the logo, the headlines, the footer and then the cards, each
\* of the first four once.  The slot layout is computed only after the
\* headlines have been painted and have produced top_y, and its slots lie
\* between that top_y and bottom_y; the footer and every card are painted
\* only after the layout has succeeded; and when the layout raises an
\* overflow error the pass has painted the background, the logo and the
\* headlines only, and no further step ever follows.
C13_StepsInOrder ==
    /\ \A i \in 1..Len(painted) :
         IF i <= Len(InitOps) THEN painted[i] = InitOps[i] ELSE painted[i].rect # 0
    /\ (pc = "layout") =>
         /\ painted = SubSeq(InitOps, 1, 3)
         /\ \E height \in HeadlineHeights :
              init_top_y = HEIGHT_PTS \div 4 + (5 * height) \div 2
    /\ (pc \in {"idle", "background", "logo", "headlines", "layout"}) =>
         /\ rectangles = <<>>
         /\ Len(painted) <= 3
    /\ (rectangles # <<>> \/ LayoutSucceeded) =>
         /\ StartsWithInitOps(3)
         /\ Len(rectangles) = n_teams
         /\ \A i \in 1..Len(rectangles) :
              /\ init_top_y <= rectangles[i].y_pos
              /\ rectangles[i].y_pos + RECT_H <= BottomY
    /\ (Len(painted) > 3) => LayoutSucceeded
    /\ (pc \in {"constructed", "loop", "done", "saved"}) => StartsWithInitOps(4)
    /\ (raised = "OverflowingHBoxError") =>
         /\ pc = "failed"
         /\ painted = SubSeq(InitOps, 1, 3)
         /\ ~FooterPainted
         /\ ~ENABLED Next

\* A completed pass with two cards: the four ops of __init__ and then the
\* sixteen ops of the cards.
C13_Witness ==
    /\ pc = "done"
    /\ Len(rectangles) = 2
    /\ StartsWithInitOps(4)
    /\ Len(painted) = 4 + 2 * 8
    /\ painted[5].rect = 1
    /\ painted[13].rect = 2

(***************************************************************************)
(* The drawing context around a panel draw.                                *)
(***************************************************************************)
\* The context when the call made on its own returns.
PanelAfter == panel.trace[Len(panel.trace)].ctx

\* Stack depth, clip region, source and line width are the same in both.
SameContextState(before, after) ==
    /\ Len(after.stack) = Len(before.stack)
    /\ after.clip = before.clip
    /\ after.source = before.source
    /\ after.line_width = before.line_width

\* The number of calls of the name among the first k calls of the panel draw.
CallsUpTo(name, k) == Cardinality({i \in 1..k : panel.trace[i].call.call = name})

\* Every restore pops a state the panel draw itself saved, and none is left.
SavesMatched ==
    /\ \A k \in 1..Len(panel.trace) : CallsUpTo("restore", k) <= CallsUpTo("save", k)
    /\ CallsUpTo("restore", Len(panel.trace)) = CallsUpTo("save", Len(panel.trace))

\* The clip to the slot is in force from clip() up to the paint() of the
\* blurred background, which it confines, and at no other call.
ClipOnlyWhilePaintingBlur ==
    /\ \A i \in 1..Len(panel.trace) :
         (RectOf(panel.rect) \in panel.trace[i].ctx.clip)
            => panel.trace[i].call.call \in {"clip", "set_source_surface", "paint"}
    /\ \E i \in 1..Len(panel.trace) :
         /\ panel.trace[i].call.call = "paint"
         /\ panel.trace[i].ctx.source = "blurred_surface"
         /\ panel.trace[i].ctx.clip = panel.before.clip \cup {RectOf(panel.rect)}
    /\ \A i \in 1..Len(panel.trace) :
         (panel.trace[i].call.call \in {"fill", "stroke"})
            => panel.trace[i].ctx.clip = panel.before.clip

\* draw_frosted_rect leaves the context as it found it.
FrostedRectLeaksNothing ==
    (pc = "panel" /\ panel.name = "draw_frosted_rect") =>
        /\ SameContextState(panel.before, PanelAfter)
        /\ SavesMatched
        /\ ClipOnlyWhilePaintingBlur

\* C14: no drawing-context state leaks out of a panel draw: after
\* draw_frosted_rect and after draw_rect return, the saved-state stack depth,
\* the clip region, the current source and the line width of the context
\* are what they were before the call, every save being matched by a
\* restore; inside draw_frosted_rect the clip to the slot rectangle is in
\* force only while the blurred background is painted.  The same holds of
\* the draw_rect call of every card of a render pass.
C14_NoContextStateLeaks ==
    /\ FrostedRectLeaksNothing
    /\ (pc = "panel" /\ panel.name = "draw_rect") =>
         /\ SameContextState(panel.before, PanelAfter)
         /\ SavesMatched
    /\ (card.team # "") => SameContextState(card.ctx_before, card.ctx_after)

====
